---- MODULE Spec2Model ----
(***************************************************************************)
(* A model of BasicRenderEngine (flame-chart-js): the render queue and its *)
(* resolution into draw calls, the drawing-state cache, the pattern        *)
(* registry and the viewport (zoom / pan) state.                           *)
(*                                                                         *)
(* JavaScript numbers that can become fractional or non-finite (zoom,      *)
(* positionX, realView) are modelled as exact extended rationals: no       *)
(* floating-point rounding is modelled, Infinity and NaN are.              *)
(***************************************************************************)
EXTENDS Integers, Sequences, FiniteSets, TLC

(***************************************************************************)
(* Bounds of the model.                                                    *)
(***************************************************************************)
MaxItems == 3
MaxNegPriority == 2
MaxPriority == 10
MaxCoord == 3
MaxDomain == 3
MaxTexts == 2

MaxGen == 4

MaxLen == 5

MaxTiles == 2

MaxContainers == 3

(***************************************************************************)
(* Generic helpers.                                                        *)
(***************************************************************************)
Abs(i) == IF i < 0 THEN -i ELSE i

Min2(a, b) == IF a <= b THEN a ELSE b

Max2(a, b) == IF a >= b THEN a ELSE b

RECURSIVE GCD(_, _)
GCD(a, b) == IF b = 0 THEN a ELSE GCD(b, a % b)

(***************************************************************************)
(* JavaScript numbers as extended rationals n/d, d >= 0, in lowest terms:  *)
(* d > 0 a finite value, 1/0 = Infinity, -1/0 = -Infinity, 0/0 = NaN.      *)
(***************************************************************************)
NaN == [n |-> 0, d |-> 0]

Norm(n, d) ==
    LET g == GCD(Abs(n), d)
    IN  [n |-> n \div g, d |-> d \div g]

Num(i) == [n |-> i, d |-> 1]

IsNaN(a) == a.d = 0 /\ a.n = 0

IsFin(a) == a.d > 0

Sign(i) == IF i > 0 THEN 1 ELSE IF i < 0 THEN -1 ELSE 0

NNeg(a) == [n |-> -a.n, d |-> a.d]

NAdd(a, b) ==
    IF IsNaN(a) \/ IsNaN(b) THEN NaN
    ELSE IF IsFin(a) /\ IsFin(b) THEN Norm(a.n * b.d + b.n * a.d, a.d * b.d)
    ELSE IF IsFin(a) THEN b
    ELSE IF IsFin(b) THEN a
    ELSE IF a.n = b.n THEN a ELSE NaN

NSub(a, b) == NAdd(a, NNeg(b))

\* a / b; a zero divisor is +0 (the model never produces -0).
NDiv(a, b) ==
    IF IsNaN(a) \/ IsNaN(b) THEN NaN
    ELSE IF IsFin(b) /\ b.n = 0
         THEN IF IsFin(a) THEN [n |-> Sign(a.n), d |-> 0] ELSE a
    ELSE IF ~IsFin(b)
         THEN IF IsFin(a) THEN Num(0) ELSE NaN
    ELSE IF ~IsFin(a) THEN [n |-> a.n * Sign(b.n), d |-> 0]
    ELSE Norm(a.n * b.d * Sign(b.n), a.d * Abs(b.n))

\* a <= b; every comparison with NaN is false.
NLe(a, b) ==
    /\ ~IsNaN(a)
    /\ ~IsNaN(b)
    /\ IF IsFin(a) /\ IsFin(b) THEN a.n * b.d <= b.n * a.d
       ELSE IF ~IsFin(a) THEN a.n < 0 \/ (~IsFin(b) /\ b.n > 0)
       ELSE b.n > 0

NGe(a, b) == NLe(b, a)

NLt(a, b) == NLe(a, b) /\ a # b

NGt(a, b) == NLt(b, a)

(***************************************************************************)
(* JavaScript strings that the code converts (property keys, the default   *)
(* sort's comparison) are sequences of UTF-16 code units.                  *)
(***************************************************************************)
CharMinus == 45

CharZero == 48

RECURSIVE Digits(_)
Digits(n) == IF n < 10 THEN <<CharZero + n>> ELSE Append(Digits(n \div 10), CharZero + (n % 10))

\* String(n) for an integer n: the property key of this.queue[priority].
NumberToString(n) == IF n < 0 THEN <<CharMinus>> \o Digits(-n) ELSE Digits(n)

RECURSIVE ParseDigits(_, _)
ParseDigits(s, acc) ==
    IF s = <<>> \/ Head(s) < CharZero \/ Head(s) > CharZero + 9 THEN acc
    ELSE ParseDigits(Tail(s), acc * 10 + (Head(s) - CharZero))

\* parseInt(s) for the decimal keys the queue holds.
ParseInt(s) ==
    IF s # <<>> /\ Head(s) = CharMinus THEN -ParseDigits(Tail(s), 0)
    ELSE ParseDigits(s, 0)

\* s < t by UTF-16 code units, as the default sort compares.
RECURSIVE StrLess(_, _)
StrLess(s, t) ==
    IF t = <<>> THEN FALSE
    ELSE IF s = <<>> THEN TRUE
    ELSE IF Head(s) # Head(t) THEN Head(s) < Head(t)
    ELSE StrLess(Tail(s), Tail(t))

\* Array.prototype.sort() without a comparator: a stable ascending sort of the
\* elements by their string conversions.
RECURSIVE InsertDefault(_, _)
InsertDefault(sorted, e) ==
    IF sorted = <<>> THEN <<e>>
    ELSE IF StrLess(NumberToString(e), NumberToString(Head(sorted)))
         THEN <<e>> \o sorted
    ELSE <<Head(sorted)>> \o InsertDefault(Tail(sorted), e)

RECURSIVE SortDefault(_)
SortDefault(a) ==
    IF a = <<>> THEN <<>>
    ELSE InsertDefault(SortDefault(SubSeq(a, 1, Len(a) - 1)), a[Len(a)])

\* A canonical array index ("0", "2", "10"): Object.keys lists these first.
IsIndexKey(k) == k # <<>> /\ Head(k) # CharMinus /\ NumberToString(ParseInt(k)) = k

RECURSIVE InsertNumeric(_, _)
InsertNumeric(sorted, k) ==
    IF sorted = <<>> THEN <<k>>
    ELSE IF ParseInt(k) < ParseInt(Head(sorted)) THEN <<k>> \o sorted
    ELSE <<Head(sorted)>> \o InsertNumeric(Tail(sorted), k)

RECURSIVE SortNumeric(_)
SortNumeric(a) ==
    IF a = <<>> THEN <<>>
    ELSE InsertNumeric(SortNumeric(SubSeq(a, 1, Len(a) - 1)), a[Len(a)])

\* Object.keys(o) for an object whose own keys were inserted in the order of
\* the sequence keys: index keys ascending, then the others as inserted.
ObjectKeys(keys) ==
    LET IsIdx(k) == IsIndexKey(k)
        NotIdx(k) == ~IsIndexKey(k)
    IN  SortNumeric(SelectSeq(keys, IsIdx)) \o SelectSeq(keys, NotIdx)

(***************************************************************************)
(* The engine's state.                                                     *)
(***************************************************************************)
VARIABLES
    width,                  \* this.width
    height,                 \* this.height
    zoom,                   \* this.zoom (extended rational)
    positionX,              \* this.positionX (extended rational)
    min,                    \* this.min
    max,                    \* this.max
    styles,                 \* this.styles
    blockPaddingLeftRight,  \* this.blockPaddingLeftRight
    blockHeight,            \* this.blockHeight
    blockPaddingTopBottom,  \* this.blockPaddingTopBottom
    placeholderWidth,       \* this.placeholderWidth
    queue,                  \* this.queue: <<[key, text, stroke, rect]>> in key insertion order
    patterns,               \* this.patterns: name -> [scale, width, gen]
    ctx,                    \* the surface's paint state: [fillStyle, strokeStyle, lineWidth, font]
    ctxCachedSettings,      \* this.ctxCachedSettings: field -> <<>> or <<value>>
    ctxCachedCalls,         \* this.ctxCachedCalls: fn -> <<>> or <<value>>
    drawn,                  \* the surface calls the last operation made, in order
    written,                \* the surface writes setCtxValue and callCtx made in the last operation
    emitted,                \* the events the last operation emitted, in order
    lastOp,                 \* the last operation called, with its arguments
    ret,                    \* what the last operation returned
    nextId,                 \* identity of the next object handed to an add operation
    nextGen,                \* identity of the next pattern resource created
    paintCalls,             \* id -> the number of resolveQueue calls that painted the item
    boxRef,                 \* the component's boxRef.current
    canvasRef,              \* the component's canvasRef.current
    flameChart,             \* the component's flameChart.current: NoContainer or a container's number
    props,                  \* the props of the component's first render
    containers,             \* the containers constructed, in order: [canvas, box]
    instanceCalls,          \* the containers props.instance was called with, in order
    forwarded               \* the container calls the last operation made, in order

viewVars == <<width, height, zoom, positionX, min, max>>

styleVars == <<styles, blockPaddingLeftRight, blockHeight, blockPaddingTopBottom, placeholderWidth>>

ctxVars == <<ctx, ctxCachedSettings, ctxCachedCalls>>

hookVars == <<boxRef, canvasRef, flameChart, props, containers, instanceCalls, forwarded>>

vars == <<viewVars, styleVars, queue, patterns, ctxVars, drawn, written, emitted, lastOp, ret,
          nextId, nextGen, paintCalls, hookVars>>

(***************************************************************************)
(* Settings, styles and the font's metrics.                                *)
(***************************************************************************)
defaultRenderStyles ==
    [blockHeight |-> 16, blockPaddingLeftRight |-> 4, backgroundColor |-> "white",
     font |-> "10px sans-serif", fontColor |-> "black"]

\* mergeObjects(defaults, given): the given value of every key given, the
\* default of every other key.
mergeObjects(defaults, given) ==
    [k \in DOMAIN defaults |-> IF k \in DOMAIN given THEN given[k] ELSE defaults[k]]

\* The ellipsis of renderTexts, and a label's characters: a character is
\* modelled by the width of its glyph, 1 (narrow) and up.
Ellipsis == 0

CharWidth(c) == IF c = Ellipsis THEN 2 ELSE c

RECURSIVE MeasureText(_)
MeasureText(text) == IF text = <<>> THEN 0 ELSE CharWidth(Head(text)) + MeasureText(Tail(text))

\* actualBoundingBoxAscent + actualBoundingBoxDescent of the measured font.
FontHeight == 9

\* Math.ceil(a / 2)
CeilHalf(a) == (a + 1) \div 2

\* The surface's initial paint state (a canvas 2D context's defaults).
Color(c) == [kind |-> "color", v |-> c, gen |-> 0]

PatternFill(name, gen) == [kind |-> "pattern", v |-> name, gen |-> gen]

\* lineDash: <<>> for the solid line (the default, and setLineDash([])), <<v>>
\* as setLineDash(v) left it.
DefaultCtx(font) ==
    [fillStyle |-> Color("#000000"), strokeStyle |-> Color("#000000"),
     lineWidth |-> 10, lineDash |-> <<>>, font |-> font]

CtxFields == {"fillStyle", "strokeStyle"}

CtxCalls == {"setLineDash"}

EmptyCache(keys) == [k \in keys |-> <<>>]

\* A JavaScript value handed to callCtx: <<typeof, literal>>.
JsNumber(literal) == <<"number", literal>>

JsString(literal) == <<"string", literal>>

JsBoolean(literal) == <<"boolean", literal>>

JsObject(reference) == <<"object", reference>>

\* !v
Falsy(v) ==
    v \in {JsNumber("0"), JsNumber("NaN"), JsString(""), JsBoolean("false"),
           JsObject("null"), <<"undefined", "undefined">>}

\* a !== b
StrictNotEqual(a, b) == a # b \/ a = JsNumber("NaN")

\* this.ctx[fn](value): the paint state the stateful operation fn leaves.
CtxCall(c, fn, value) == IF fn = "setLineDash" THEN [c EXCEPT !.lineDash = <<value>>] ELSE c

DefaultPatternTypes == {"stripes", "dots", "gradient", "triangles", "combined"}

\* createBlockPattern: the registry with the pattern made by the creator of d
\* stored under d.name ({scale: 1, width: 10, ...creator(this)}).
createBlockPattern(reg, d, gen) ==
    [n \in DOMAIN reg \cup {d.name} |->
        IF n = d.name THEN [scale |-> d.scale, width |-> d.width, gen |-> gen] ELSE reg[n]]

\* createDefaultPattern: nothing for an unknown type.
createDefaultPattern(reg, d, gen) ==
    IF d.type \in DefaultPatternTypes THEN createBlockPattern(reg, d, gen) ELSE reg

\* createCachedDefaultPattern creating the pattern whatever the registry holds.
createCachedDefaultPatternUncached(reg, d, gen) == createDefaultPattern(reg, d, gen)

\* createCachedDefaultPattern: nothing when the registry has the name.
createCachedDefaultPattern(reg, d, gen) ==
    IF d.name \in DOMAIN reg THEN reg ELSE createDefaultPattern(reg, d, gen)

\* The number of patterns a registration created: a pattern created has a new
\* identity, so the registry changes exactly when one is created.
Created(before, after) == IF after # before THEN 1 ELSE 0

\* defaultPatterns.forEach(createDefaultPattern), the first resource created
\* having identity gen.
RECURSIVE RegisterDefaults(_, _, _)
RegisterDefaults(reg, ds, gen) ==
    IF ds = <<>> THEN reg
    ELSE RegisterDefaults(createDefaultPattern(reg, Head(ds), gen), Tail(ds), gen + 1)

\* customPatterns.forEach(createBlockPattern)
RECURSIVE RegisterCustoms(_, _, _)
RegisterCustoms(reg, ds, gen) ==
    IF ds = <<>> THEN reg
    ELSE RegisterCustoms(createBlockPattern(reg, Head(ds), gen), Tail(ds), gen + 1)

IsCustom(d) == d.custom

IsDefault(d) == ~d.custom

\* SettingsPatterns registering the descriptors in the order of the list.
RECURSIVE SettingsPatternsInListOrder(_, _, _)
SettingsPatternsInListOrder(reg, ds, gen) ==
    IF ds = <<>> THEN reg
    ELSE SettingsPatternsInListOrder(
            IF IsCustom(Head(ds)) THEN createBlockPattern(reg, Head(ds), gen)
            ELSE createDefaultPattern(reg, Head(ds), gen),
            Tail(ds), gen + 1)

\* setSettings' pattern part: the built-in descriptors first, then the custom ones.
SettingsPatterns(reg, ds, gen) ==
    LET defaults == SelectSeq(ds, IsDefault)
        customs == SelectSeq(ds, IsCustom)
    IN  RegisterCustoms(RegisterDefaults(reg, defaults, gen), customs, gen + Len(defaults))

(***************************************************************************)
(* The render queue.                                                       *)
(***************************************************************************)
QueueKeys(q) == [i \in 1..Len(q) |-> q[i].key]

\* The position of key in the queue object, 0 when it has no such key.
KeyIndex(q, key) ==
    IF \E i \in 1..Len(q) : q[i].key = key
    THEN CHOOSE i \in 1..Len(q) : q[i].key = key
    ELSE 0

\* getQueue starting the queue over with an empty bucket for the priority.
getQueueAlone(q, priority) ==
    <<[key |-> NumberToString(priority), text |-> <<>>, stroke |-> <<>>, rect |-> <<>>]>>

\* getQueue(priority): the queue with a bucket for the priority.
getQueue(q, priority) ==
    IF KeyIndex(q, NumberToString(priority)) = 0
    THEN Append(q, [key |-> NumberToString(priority), text |-> <<>>, stroke |-> <<>>,
                    rect |-> <<>>])
    ELSE q

\* rect.pattern || 'none' ("" stands for an omitted pattern)
PatternOrNone(pattern) == IF pattern = "" THEN "none" ELSE pattern

\* PushRect with the rectangle put at the front of its bucket (unshift for push).
PushRectFront(groups, r) ==
    LET g1 == IF \E i \in 1..Len(groups) : groups[i].pattern = r.pattern
              THEN groups
              ELSE Append(groups, [pattern |-> r.pattern, colors |-> <<>>])
        gi == CHOOSE i \in 1..Len(g1) : g1[i].pattern = r.pattern
        c0 == g1[gi].colors
        c1 == IF \E j \in 1..Len(c0) : c0[j].color = r.color
              THEN c0
              ELSE Append(c0, [color |-> r.color, items |-> <<>>])
        cj == CHOOSE j \in 1..Len(c1) : c1[j].color = r.color
    IN  [g1 EXCEPT ![gi].colors = [c1 EXCEPT ![cj].items = <<r>> \o @]]

\* queue.rect[rect.pattern][rect.color].push(rect), the maps created lazily.
PushRect(groups, r) ==
    LET g1 == IF \E i \in 1..Len(groups) : groups[i].pattern = r.pattern
              THEN groups
              ELSE Append(groups, [pattern |-> r.pattern, colors |-> <<>>])
        gi == CHOOSE i \in 1..Len(g1) : g1[i].pattern = r.pattern
        c0 == g1[gi].colors
        c1 == IF \E j \in 1..Len(c0) : c0[j].color = r.color
              THEN c0
              ELSE Append(c0, [color |-> r.color, items |-> <<>>])
        cj == CHOOSE j \in 1..Len(c1) : c1[j].color = r.color
    IN  [g1 EXCEPT ![gi].colors = [c1 EXCEPT ![cj].items = Append(@, r)]]

\* TextMaxWidth without the part of the block left of the viewport.
TextMaxWidthUnclipped(x, w) == w - blockPaddingLeftRight * 2

\* addText's width left for the label.
TextMaxWidth(x, w) == w - (blockPaddingLeftRight * 2 - (IF x < 0 THEN x ELSE 0))

(***************************************************************************)
(* Drawing: the operators thread st = [ctx, cache, drawn, written] through *)
(* the calls the code makes.                                               *)
(***************************************************************************)
\* A call made on the surface: the operation and its arguments, the paint state
\* it is made in (fill: the fill or stroke style, tx, ty: the translation of the
\* pattern's tile, sw: the engine's width) and the queued item it paints (src,
\* id, priority).
DrawCall(op, src, priority, x, y, w, h, text, fill, tx, ty) ==
    [op |-> op, id |-> src.id, priority |-> priority, x |-> x, y |-> y, w |-> w, h |-> h,
     text |-> text, fill |-> fill, src |-> src, sw |-> width, tx |-> tx, ty |-> ty]

\* The item of a call that paints no queued item.
Direct(x, y, w, h) == [id |-> 0, x |-> x, y |-> y, w |-> w, h |-> h]

\* A write of the surface: the assignment of a property or a stateful call.
Write(name, value) == [name |-> name, value |-> value]

\* The surface as an operation finds it, nothing drawn or written yet.
Surface ==
    [ctx |-> ctx, cache |-> ctxCachedSettings, calls |-> ctxCachedCalls, drawn |-> <<>>,
     written |-> <<>>]

\* setCtxValue writing the surface whatever the cache holds.
setCtxValueUncached(st, field, value) ==
    [st EXCEPT !.ctx[field] = Color(value), !.cache[field] = <<value>>,
               !.written = Append(@, Write(field, value))]

setCtxValue(st, field, value) ==
    IF st.cache[field] # <<value>>
    THEN [st EXCEPT !.ctx[field] = Color(value), !.cache[field] = <<value>>,
                    !.written = Append(@, Write(field, value))]
    ELSE st

\* !this.ctxCachedCalls[fn] || this.ctxCachedCalls[fn] !== value
CallInvokes(calls, fn, value) ==
    \/ calls[fn] = <<>>
    \/ Falsy(calls[fn][1])
    \/ StrictNotEqual(calls[fn][1], value)

callCtx(st, fn, value) ==
    IF CallInvokes(st.calls, fn, value)
    THEN [st EXCEPT !.ctx = CtxCall(@, fn, value), !.calls[fn] = <<value>>,
                    !.written = Append(@, Write(fn, value))]
    ELSE st

\* h ?? this.blockHeight (<<>> stands for an omitted h)
HeightOrDefault(h) == IF h = <<>> THEN blockHeight ELSE h[1]

\* BlockWidth without the clamp to the surface.
BlockWidthUnclamped(x, w) == w - (Min2(width, Max2(0, x)) - x)

\* renderBlock's truncatedX
TruncatedX(x) == Min2(width, Max2(0, x))

\* renderBlock's width: Math.min(this.width - truncatedX, Math.max(0, w - delta))
BlockWidth(x, w) == Min2(width - TruncatedX(x), Max2(0, w - (TruncatedX(x) - x)))

renderBlock(st, r, priority, tx, ty) ==
    [st EXCEPT !.drawn = Append(@,
        DrawCall("fillRect", r, priority, TruncatedX(r.x), r.y, BlockWidth(r.x, r.w),
                 HeightOrDefault(r.h), <<>>, st.ctx.fillStyle, tx, ty))]

renderStroke(st, s, priority) ==
    LET st1 == setCtxValue(st, "strokeStyle", s.color)
        st2 == [st1 EXCEPT !.ctx.lineDash = <<>>, !.ctx.lineWidth = 15]
    IN  [st2 EXCEPT !.drawn = Append(@,
            DrawCall("strokeRect", s, priority, s.x, s.y, s.w, s.h, <<>>,
                     st2.ctx.strokeStyle, 0, 0))]

\* PatternDeltaX of the rectangle's x, the pattern's scale left out.
PatternDeltaXUnscaled(x, pattern) == x - (x \div pattern.width) * pattern.width

\* PatternDeltaX with the remainder of a division that truncates (the sign of
\* the dividend is kept).
PatternDeltaXTruncating(x, pattern) ==
    LET fullDeltaX == x * pattern.scale
    IN  IF fullDeltaX >= 0 THEN fullDeltaX % pattern.width
        ELSE -((-fullDeltaX) % pattern.width)

\* deltaX of renderRects: fullDeltaX - floor(fullDeltaX / width) * width
PatternDeltaX(x, pattern) ==
    LET fullDeltaX == x * pattern.scale
    IN  fullDeltaX - (fullDeltaX \div pattern.width) * pattern.width

RECURSIVE RenderItems(_, _, _, _)
RenderItems(st, items, pat, priority) ==
    IF items = <<>> THEN st
    ELSE LET r == Head(items)
             tx == IF pat # <<>> THEN PatternDeltaX(r.x, pat[1]) ELSE 0
             ty == IF pat # <<>> THEN r.y * pat[1].scale ELSE 0
         IN  RenderItems(renderBlock(st, r, priority, tx, ty), Tail(items), pat, priority)

RECURSIVE RenderColors(_, _, _, _)
RenderColors(st, colors, pat, priority) ==
    IF colors = <<>> THEN st
    ELSE LET c == Head(colors)
             st1 == IF pat = <<>> THEN setCtxValue(st, "fillStyle", c.color) ELSE st
         IN  RenderColors(RenderItems(st1, c.items, pat, priority), Tail(colors), pat,
                          priority)

RECURSIVE renderRects(_, _, _)
renderRects(st, groups, priority) ==
    IF groups = <<>> THEN st
    ELSE LET g == Head(groups)
             found == g.pattern # "none" /\ g.pattern \in DOMAIN patterns
             pat == IF found THEN <<patterns[g.pattern]>> ELSE <<>>
             st1 == IF found
                    THEN [st EXCEPT
                            !.ctx.fillStyle = PatternFill(g.pattern, patterns[g.pattern].gen),
                            !.cache.fillStyle = <<g.pattern>>]
                    ELSE st
         IN  renderRects(RenderColors(st1, g.colors, pat, priority), Tail(groups), priority)

\* String.prototype.slice(from, to) for 0 <= to
Slice(s, from, to) ==
    LET f == IF from < 0 THEN Max2(Len(s) + from, 0) ELSE Min2(from, Len(s))
        t == Min2(to, Len(s))
    IN  IF f >= t THEN <<>> ELSE SubSeq(s, f + 1, t)

\* FitText keeping the extra character of an odd split at the end.
FitTextTrailing(text, textMaxWidth) ==
    LET textWidth == MeasureText(text)
        maxChars == ((textMaxWidth - placeholderWidth) * Len(text)) \div textWidth
    IN  IF textWidth > textMaxWidth
        THEN IF maxChars - 1 > 0
             THEN Slice(text, 0, (maxChars - 1) \div 2) \o <<Ellipsis>>
                  \o Slice(text, Len(text) - (maxChars \div 2), Len(text))
             ELSE <<>>
        ELSE text

\* The label renderTexts draws for text in textMaxWidth (<<>>: nothing).
FitText(text, textMaxWidth) ==
    LET textWidth == MeasureText(text)
        \* Math.floor((textMaxWidth - placeholderWidth) / (textWidth / text.length))
        maxChars == ((textMaxWidth - placeholderWidth) * Len(text)) \div textWidth
    IN  IF textWidth > textMaxWidth
        THEN IF maxChars - 1 > 0
             THEN Slice(text, 0, maxChars \div 2) \o <<Ellipsis>>
                  \o Slice(text, Len(text) - ((maxChars - 1) \div 2), Len(text))
             ELSE <<>>
        ELSE text

RECURSIVE RenderTextItems(_, _, _)
RenderTextItems(st, texts, priority) ==
    IF texts = <<>> THEN st
    ELSE LET t == Head(texts)
             fitted == FitText(t.text, t.textMaxWidth)
             st1 == IF fitted # <<>>
                    THEN [st EXCEPT !.drawn = Append(@,
                            DrawCall("fillText", t, priority,
                                     (IF t.x < 0 THEN 0 ELSE t.x) + blockPaddingLeftRight,
                                     t.y + blockHeight - blockPaddingTopBottom, 0, 0, fitted,
                                     st.ctx.fillStyle, 0, 0))]
                    ELSE st
         IN  RenderTextItems(st1, Tail(texts), priority)

renderTexts(st, texts, priority) ==
    RenderTextItems(setCtxValue(st, "fillStyle", styles.fontColor), texts, priority)

RECURSIVE renderStrokes(_, _, _)
renderStrokes(st, strokes, priority) ==
    IF strokes = <<>> THEN st
    ELSE renderStrokes(renderStroke(st, Head(strokes), priority), Tail(strokes), priority)

\* RenderBucket with the strokes painted before the texts.
RenderBucketStrokesFirst(st, bucket, priority) ==
    renderTexts(renderStrokes(renderRects(st, bucket.rect, priority), bucket.stroke, priority),
                bucket.text, priority)

\* One priority of resolveQueue: rects, then texts, then strokes.
RenderBucket(st, bucket, priority) ==
    renderStrokes(renderTexts(renderRects(st, bucket.rect, priority), bucket.text, priority),
                  bucket.stroke, priority)

\* Object.keys(this.queue).map(parseInt).sort()
ResolveOrder(q) ==
    LET keys == ObjectKeys(QueueKeys(q))
    IN  SortDefault([i \in 1..Len(keys) |-> ParseInt(keys[i])])

RECURSIVE RenderPriorities(_, _, _)
RenderPriorities(st, q, priorities) ==
    IF priorities = <<>> THEN st
    ELSE LET p == Head(priorities)
         IN  RenderPriorities(RenderBucket(st, q[KeyIndex(q, NumberToString(p))], p), q,
                              Tail(priorities))

DrawnIds(d) == {d[i].id : i \in 1..Len(d)}

\* ResolvedQueue with the queue left as it was.
ResolvedQueueKept(q) == q

\* this.queue = {} at the end of resolveQueue
ResolvedQueue(q) == <<>>

(***************************************************************************)
(* The viewport.                                                           *)
(***************************************************************************)
getRealView == NDiv(Num(width), zoom)

getInitialZoom ==
    IF max - min > 0 THEN NDiv(Num(width), Num(max - min)) ELSE Num(1)

\* TryPosition rejecting a move that leaves the domain (no snap to the edge).
TryPositionRejecting(positionDelta) ==
    LET realView == NDiv(Num(width), zoom)
        moved == NAdd(positionX, positionDelta)
    IN  IF NLe(NAdd(moved, realView), Num(max)) /\ NGe(moved, Num(min)) THEN moved
        ELSE positionX

\* TryPosition snapping to max instead of max - realView.
TryPositionSnapMax(positionDelta) ==
    LET realView == NDiv(Num(width), zoom)
        moved == NAdd(positionX, positionDelta)
    IN  IF NLe(NAdd(moved, realView), Num(max)) /\ NGe(moved, Num(min)) THEN moved
        ELSE IF NLe(moved, Num(min)) THEN Num(min)
        ELSE IF NGe(NAdd(moved, realView), Num(max)) THEN Num(max)
        ELSE positionX

\* The positionX that tryToChangePosition(positionDelta) leaves.
TryPosition(positionDelta) ==
    LET realView == getRealView
        moved == NAdd(positionX, positionDelta)
    IN  IF NLe(NAdd(moved, realView), Num(max)) /\ NGe(moved, Num(min)) THEN moved
        ELSE IF NLe(moved, Num(min)) THEN Num(min)
        ELSE IF NGe(NAdd(moved, realView), Num(max)) THEN NSub(Num(max), realView)
        ELSE positionX

\* An argument of resize: <<>> when omitted, <<n>> for the number n, NonNumber
\* for a value that is not a number (typeof arg # 'number').
NonNumber == <<"string", "wide">>

\* typeof arg === 'number'
IsNumber(arg) == Len(arg) = 1

\* Resolved without the clamp at 0.
ResolvedUnclamped(arg) == IF IsNumber(arg) THEN arg[1] ELSE 0

\* Math.max(0, width || 0) (0 for an omitted argument; the value resolved for
\* an argument that is not a number is never stored)
Resolved(arg) == IF IsNumber(arg) THEN Max2(0, arg[1]) ELSE 0

(***************************************************************************)
(* The operations.                                                         *)
(***************************************************************************)
Op(name, args) == [name |-> name, args |-> args]

Undefined == <<>>

Quiet == /\ drawn' = <<>>
         /\ written' = <<>>
         /\ emitted' = <<>>

addRect(rect, priority) ==
    /\ LET q1 == getQueue(queue, priority)
           i == KeyIndex(q1, NumberToString(priority))
           r == [rect EXCEPT !.pattern = PatternOrNone(rect.pattern), !.id = nextId]
       IN  queue' = [q1 EXCEPT ![i].rect = PushRect(@, r)]
    /\ nextId' = nextId + 1
    /\ lastOp' = Op("addRect", <<rect, priority>>)
    /\ UNCHANGED hookVars
    /\ ret' = Undefined
    /\ Quiet
    /\ UNCHANGED <<viewVars, styleVars, patterns, ctxVars, nextGen, paintCalls>>

addText(item, priority) ==
    /\ LET textMaxWidth == TextMaxWidth(item.x, item.w)
           q1 == getQueue(queue, priority)
           i == KeyIndex(q1, NumberToString(priority))
           t == [id |-> nextId, text |-> item.text, x |-> item.x, y |-> item.y,
                 w |-> item.w, textMaxWidth |-> textMaxWidth]
       IN  queue' = IF item.text # <<>> /\ textMaxWidth > 0
                    THEN [q1 EXCEPT ![i].text = Append(@, t)]
                    ELSE queue
    /\ nextId' = nextId + 1
    /\ lastOp' = Op("addText", <<item, priority>>)
    /\ UNCHANGED hookVars
    /\ ret' = Undefined
    /\ Quiet
    /\ UNCHANGED <<viewVars, styleVars, patterns, ctxVars, nextGen, paintCalls>>

addStroke(stroke, priority) ==
    /\ LET q1 == getQueue(queue, priority)
           i == KeyIndex(q1, NumberToString(priority))
       IN  queue' = [q1 EXCEPT ![i].stroke = Append(@, [stroke EXCEPT !.id = nextId])]
    /\ nextId' = nextId + 1
    /\ lastOp' = Op("addStroke", <<stroke, priority>>)
    /\ UNCHANGED hookVars
    /\ ret' = Undefined
    /\ Quiet
    /\ UNCHANGED <<viewVars, styleVars, patterns, ctxVars, nextGen, paintCalls>>

resolveQueue ==
    /\ LET st == RenderPriorities(Surface, queue, ResolveOrder(queue))
       IN  /\ ctx' = st.ctx
           /\ ctxCachedSettings' = st.cache
           /\ drawn' = st.drawn
           /\ written' = st.written
           /\ paintCalls' = [id \in DOMAIN paintCalls |->
                                IF id \in DrawnIds(st.drawn) THEN paintCalls[id] + 1
                                ELSE paintCalls[id]]
    /\ queue' = ResolvedQueue(queue)
    /\ emitted' = <<>>
    /\ lastOp' = Op("resolveQueue", <<>>)
    /\ UNCHANGED hookVars
    /\ ret' = Undefined
    /\ UNCHANGED <<viewVars, styleVars, patterns, ctxCachedCalls, nextId, nextGen>>

reset ==
    /\ queue' = <<>>
    /\ ctxCachedCalls' = EmptyCache(CtxCalls)
    /\ ctxCachedSettings' = EmptyCache(CtxFields)
    /\ lastOp' = Op("reset", <<>>)
    /\ UNCHANGED hookVars
    /\ ret' = Undefined
    /\ Quiet
    /\ UNCHANGED <<viewVars, styleVars, patterns, ctx, nextId, nextGen, paintCalls>>

\* clear() with its default arguments: the whole surface.
clear ==
    /\ LET st == setCtxValue(Surface, "fillStyle", styles.backgroundColor)
       IN  /\ ctx' = st.ctx
           /\ written' = st.written
           /\ drawn' = <<DrawCall("clearRect", Direct(0, 0, width, height), 0, 0, 0, width,
                                  height - 1, <<>>, st.ctx.fillStyle, 0, 0),
                         DrawCall("fillRect", Direct(0, 0, width, height), 0, 0, 0, width,
                                  height, <<>>, st.ctx.fillStyle, 0, 0)>>
    /\ ctxCachedCalls' = EmptyCache(CtxCalls)
    /\ ctxCachedSettings' = EmptyCache(CtxFields)
    /\ emitted' = <<[name |-> "clear", args |-> <<>>]>>
    /\ lastOp' = Op("clear", <<>>)
    /\ UNCHANGED hookVars
    /\ ret' = Undefined
    /\ UNCHANGED <<viewVars, styleVars, queue, patterns, nextId, nextGen, paintCalls>>

\* What setSettings derives from the settings given (<<>>: no patterns given).
SettingsApplied(givenStyles, givenPatterns) ==
    LET merged == mergeObjects(defaultRenderStyles, givenStyles)
    IN  /\ styles' = merged
        /\ patterns' = SettingsPatterns(patterns, givenPatterns, nextGen)
        /\ nextGen' = nextGen + Len(givenPatterns)
        /\ blockHeight' = merged.blockHeight
        /\ ctx' = [ctx EXCEPT !.font = merged.font]
        /\ blockPaddingLeftRight' = merged.blockPaddingLeftRight
        /\ blockPaddingTopBottom' = CeilHalf(merged.blockHeight - FontHeight)
        /\ placeholderWidth' = CharWidth(Ellipsis)

setSettings(givenStyles, givenPatterns) ==
    /\ SettingsApplied(givenStyles, givenPatterns)
    /\ lastOp' = Op("setSettings", <<givenStyles, givenPatterns>>)
    /\ UNCHANGED hookVars
    /\ ret' = Undefined
    /\ Quiet
    /\ UNCHANGED <<viewVars, queue, ctxCachedSettings, ctxCachedCalls, nextId, paintCalls>>

setZoom(z) ==
    /\ zoom' = z
    /\ lastOp' = Op("setZoom", <<z>>)
    /\ UNCHANGED hookVars
    /\ ret' = Undefined
    /\ Quiet
    /\ UNCHANGED <<width, height, positionX, min, max, styleVars, queue, patterns, ctxVars,
                   nextId, nextGen, paintCalls>>

setPositionX(x) ==
    /\ positionX' = x
    /\ lastOp' = Op("setPositionX", <<x>>)
    /\ UNCHANGED hookVars
    /\ ret' = <<NSub(x, positionX)>>
    /\ Quiet
    /\ UNCHANGED <<width, height, zoom, min, max, styleVars, queue, patterns, ctxVars,
                   nextId, nextGen, paintCalls>>

tryToChangePosition(positionDelta) ==
    /\ positionX' = TryPosition(positionDelta)
    /\ lastOp' = Op("tryToChangePosition", <<positionDelta>>)
    /\ UNCHANGED hookVars
    /\ ret' = Undefined
    /\ Quiet
    /\ UNCHANGED <<width, height, zoom, min, max, styleVars, queue, patterns, ctxVars,
                   nextId, nextGen, paintCalls>>

\* setMinMax emitting 'min-max-change' on every call.
setMinMaxAlwaysEmitting(newMin, newMax) ==
    /\ min' = newMin
    /\ max' = newMax
    /\ emitted' = <<[name |-> "min-max-change", args |-> <<newMin, newMax>>]>>
    /\ drawn' = <<>>
    /\ written' = <<>>
    /\ lastOp' = Op("setMinMax", <<newMin, newMax>>)
    /\ UNCHANGED hookVars
    /\ ret' = Undefined
    /\ UNCHANGED <<width, height, zoom, positionX, styleVars, queue, patterns, ctxVars,
                   nextId, nextGen, paintCalls>>

setMinMax(newMin, newMax) ==
    /\ min' = newMin
    /\ max' = newMax
    /\ emitted' = IF newMin # min \/ newMax # max
                  THEN <<[name |-> "min-max-change", args |-> <<newMin, newMax>>]>>
                  ELSE <<>>
    /\ drawn' = <<>>
    /\ written' = <<>>
    /\ lastOp' = Op("setMinMax", <<newMin, newMax>>)
    /\ UNCHANGED hookVars
    /\ ret' = Undefined
    /\ UNCHANGED <<width, height, zoom, positionX, styleVars, queue, patterns, ctxVars,
                   nextId, nextGen, paintCalls>>

resetView ==
    /\ zoom' = getInitialZoom
    /\ positionX' = Num(min)
    /\ lastOp' = Op("resetView", <<>>)
    /\ UNCHANGED hookVars
    /\ ret' = Undefined
    /\ Quiet
    /\ UNCHANGED <<width, height, min, max, styleVars, queue, patterns, ctxVars,
                   nextId, nextGen, paintCalls>>

\* resize returning whether any dimension changed.
resizeReturningChanged(newWidth, newHeight) ==
    LET isWidthChanged == IsNumber(newWidth) /\ width # Resolved(newWidth)
        isHeightChanged == IsNumber(newHeight) /\ height # Resolved(newHeight)
    IN  /\ IF isWidthChanged \/ isHeightChanged
           THEN /\ width' = IF isWidthChanged THEN Resolved(newWidth) ELSE width
                /\ height' = IF isHeightChanged THEN Resolved(newHeight) ELSE height
                /\ ctx' = DefaultCtx(styles.font)
                /\ emitted' = <<[name |-> "resize", args |-> <<width', height'>>]>>
                /\ ret' = <<TRUE>>
           ELSE /\ UNCHANGED <<width, height, ctx>>
                /\ emitted' = <<>>
                /\ ret' = <<FALSE>>
        /\ drawn' = <<>>
        /\ written' = <<>>
        /\ lastOp' = Op("resize", <<newWidth, newHeight>>)
        /\ UNCHANGED hookVars
        /\ UNCHANGED <<zoom, positionX, min, max, styleVars, queue, patterns,
                       ctxCachedSettings, ctxCachedCalls, nextId, nextGen, paintCalls>>

\* resize(width, height); applyCanvasSize sets the canvas's size, which resets
\* the surface's paint state, and then the font.
resize(newWidth, newHeight) ==
    LET isWidthChanged == IsNumber(newWidth) /\ width # Resolved(newWidth)
        isHeightChanged == IsNumber(newHeight) /\ height # Resolved(newHeight)
    IN  /\ IF isWidthChanged \/ isHeightChanged
           THEN /\ width' = IF isWidthChanged THEN Resolved(newWidth) ELSE width
                /\ height' = IF isHeightChanged THEN Resolved(newHeight) ELSE height
                /\ ctx' = DefaultCtx(styles.font)
                /\ emitted' = <<[name |-> "resize", args |-> <<width', height'>>]>>
                /\ ret' = <<isHeightChanged>>
           ELSE /\ UNCHANGED <<width, height, ctx>>
                /\ emitted' = <<>>
                /\ ret' = <<FALSE>>
        /\ drawn' = <<>>
        /\ written' = <<>>
        /\ lastOp' = Op("resize", <<newWidth, newHeight>>)
        /\ UNCHANGED hookVars
        /\ UNCHANGED <<zoom, positionX, min, max, styleVars, queue, patterns,
                       ctxCachedSettings, ctxCachedCalls, nextId, nextGen, paintCalls>>

\* renderBlock(x, y, w, h) called directly.
renderBlockCall(x, y, w, h) ==
    /\ LET st == renderBlock(Surface, Direct(x, y, w, h), 0, 0, 0)
       IN  /\ drawn' = st.drawn
           /\ written' = st.written
    /\ emitted' = <<>>
    /\ lastOp' = Op("renderBlock", <<x, y, w, h>>)
    /\ UNCHANGED hookVars
    /\ ret' = Undefined
    /\ UNCHANGED <<viewVars, styleVars, queue, patterns, ctxVars, nextId, nextGen, paintCalls>>

\* What a call registering patterns leaves, reg being the registry it leaves.
Registered(name, d, reg, created) ==
    /\ patterns' = reg
    /\ nextGen' = nextGen + created
    /\ lastOp' = Op(name, <<d>>)
    /\ UNCHANGED hookVars
    /\ ret' = Undefined
    /\ Quiet
    /\ UNCHANGED <<viewVars, styleVars, queue, ctxVars, nextId, paintCalls>>

createBlockPatternCall(d) ==
    LET reg == createBlockPattern(patterns, d, nextGen)
    IN  Registered("createBlockPattern", d, reg, Created(patterns, reg))

createDefaultPatternCall(d) ==
    LET reg == createDefaultPattern(patterns, d, nextGen)
    IN  Registered("createDefaultPattern", d, reg, Created(patterns, reg))

createCachedDefaultPatternCall(d) ==
    LET reg == createCachedDefaultPattern(patterns, d, nextGen)
    IN  Registered("createCachedDefaultPattern", d, reg, Created(patterns, reg))

\* createCachedDefaultPattern(d); createCachedDefaultPattern(d): two
\* consecutive calls.
createCachedDefaultPatternTwice(d) ==
    LET reg1 == createCachedDefaultPattern(patterns, d, nextGen)
        gen1 == nextGen + Created(patterns, reg1)
        reg2 == createCachedDefaultPattern(reg1, d, gen1)
    IN  Registered("createCachedDefaultPatternTwice", d, reg2,
                   Created(patterns, reg1) + Created(reg1, reg2))

\* setCtxValue(field, value) called directly.
setCtxValueCall(field, value) ==
    /\ LET st == setCtxValue(Surface, field, value)
       IN  /\ ctx' = st.ctx
           /\ ctxCachedSettings' = st.cache
           /\ written' = st.written
    /\ drawn' = <<>>
    /\ emitted' = <<>>
    /\ lastOp' = Op("setCtxValue", <<field, value>>)
    /\ UNCHANGED hookVars
    /\ ret' = Undefined
    /\ UNCHANGED <<viewVars, styleVars, queue, patterns, ctxCachedCalls, nextId, nextGen,
                   paintCalls>>

\* setCtxValue(field, value); setCtxValue(field, value): two consecutive calls.
setCtxValueTwice(field, value) ==
    /\ LET st == setCtxValue(setCtxValue(Surface, field, value), field, value)
       IN  /\ ctx' = st.ctx
           /\ ctxCachedSettings' = st.cache
           /\ written' = st.written
    /\ drawn' = <<>>
    /\ emitted' = <<>>
    /\ lastOp' = Op("setCtxValueTwice", <<field, value>>)
    /\ UNCHANGED hookVars
    /\ ret' = Undefined
    /\ UNCHANGED <<viewVars, styleVars, queue, patterns, ctxCachedCalls, nextId, nextGen,
                   paintCalls>>

\* callCtx(fn, value) called directly.
callCtxCall(fn, value) ==
    /\ LET st == callCtx(Surface, fn, value)
       IN  /\ ctx' = st.ctx
           /\ ctxCachedCalls' = st.calls
           /\ written' = st.written
    /\ drawn' = <<>>
    /\ emitted' = <<>>
    /\ lastOp' = Op("callCtx", <<fn, value>>)
    /\ UNCHANGED hookVars
    /\ ret' = Undefined
    /\ UNCHANGED <<viewVars, styleVars, queue, patterns, ctxCachedSettings, nextId, nextGen,
                   paintCalls>>

\* callCtx(fn, value); callCtx(fn, value): two consecutive calls.
callCtxTwice(fn, value) ==
    /\ LET st == callCtx(callCtx(Surface, fn, value), fn, value)
       IN  /\ ctx' = st.ctx
           /\ ctxCachedCalls' = st.calls
           /\ written' = st.written
    /\ drawn' = <<>>
    /\ emitted' = <<>>
    /\ lastOp' = Op("callCtxTwice", <<fn, value>>)
    /\ UNCHANGED hookVars
    /\ ret' = Undefined
    /\ UNCHANGED <<viewVars, styleVars, queue, patterns, ctxCachedSettings, nextId, nextGen,
                   paintCalls>>

(***************************************************************************)
(* The React component around a chart.                                     *)
(***************************************************************************)
Null == "null"

\* flameChart.current before any container: null.
NoContainer == 0

\* No component: an engine constructed on a canvas of its own.
Unmounted ==
    /\ boxRef = Null
    /\ canvasRef = Null
    /\ flameChart = NoContainer
    /\ props = [instance |-> FALSE]
    /\ containers = <<>>
    /\ instanceCalls = <<>>
    /\ forwarded = <<>>

\* The component's refs and what it has constructed, as an operation finds
\* them.
Hooks ==
    [boxRef |-> boxRef, canvasRef |-> canvasRef, flameChart |-> flameChart,
     containers |-> containers, instanceCalls |-> instanceCalls]

\* new FlameChartContainer({canvas, ...}) and props.instance?.(it), whatever
\* the refs hold.
initializeUnguarded(h) ==
    LET made == Len(h.containers) + 1
    IN  [h EXCEPT !.containers = Append(@, [canvas |-> h.canvasRef, box |-> h.boxRef]),
                  !.flameChart = made,
                  !.instanceCalls = IF props.instance THEN Append(@, made) ELSE @]

\* initialize: if (canvasRef.current && boxRef.current) construct a container
\* on the canvas and hand it to props.instance, when that is given.
initialize(h) ==
    IF h.canvasRef # Null /\ h.boxRef # Null
    THEN LET made == Len(h.containers) + 1
         IN  [h EXCEPT !.containers = Append(@, [canvas |-> h.canvasRef, box |-> h.boxRef]),
                       !.flameChart = made,
                       !.instanceCalls = IF props.instance THEN Append(@, made) ELSE @]
    ELSE h

\* A call of the container's method name.
ContainerCall(chart, name, args) == [target |-> chart, name |-> name, args |-> args]

\* flameChart.current.name(args) without the ?. of the component.
OptionalCallUnguarded(chart, name, args) == <<ContainerCall(chart, name, args)>>

\* flameChart.current?.name(args)
OptionalCall(chart, name, args) ==
    IF chart # NoContainer THEN <<ContainerCall(chart, name, args)>> ELSE <<>>

\* What an operation of the component leaves of the engine's variables.
engineVars ==
    <<viewVars, styleVars, queue, patterns, ctxVars, drawn, written, emitted, ret, nextId,
      nextGen, paintCalls>>

HooksSet(h) ==
    /\ boxRef' = h.boxRef
    /\ canvasRef' = h.canvasRef
    /\ flameChart' = h.flameChart
    /\ containers' = h.containers
    /\ instanceCalls' = h.instanceCalls

setBoxRef(ref) ==
    /\ LET isNewRef == ref # boxRef
           h == [Hooks EXCEPT !.boxRef = ref]
       IN  HooksSet(IF isNewRef THEN initialize(h) ELSE h)
    /\ forwarded' = <<>>
    /\ lastOp' = Op("setBoxRef", <<ref>>)
    /\ UNCHANGED <<props, engineVars>>

setCanvasRef(ref) ==
    /\ LET isNewRef == ref # canvasRef
           h == [Hooks EXCEPT !.canvasRef = ref]
       IN  HooksSet(IF isNewRef THEN initialize(h) ELSE h)
    /\ forwarded' = <<>>
    /\ lastOp' = Op("setCanvasRef", <<ref>>)
    /\ UNCHANGED <<props, engineVars>>

\* A request of the component to its container: the calls it makes, the refs
\* staying as they are.
Requested(name, args, calls) ==
    /\ forwarded' = calls
    /\ lastOp' = Op(name, args)
    /\ UNCHANGED <<boxRef, canvasRef, flameChart, props, containers, instanceCalls, engineVars>>

\* Destructuring with a default: ({ key = 0 })
OrZero(given) == IF given = <<>> THEN 0 ELSE given[1]

\* onResize of useResizeObserver, the observed width and height given or not.
onResize(givenWidth, givenHeight) ==
    Requested("onResize", <<givenWidth, givenHeight>>,
              OptionalCall(flameChart, "resize",
                           <<OrZero(givenWidth), OrZero(givenHeight) - 3>>))

\* The effect on props.settings (<<>> for undefined).
settingsEffect(settings) ==
    Requested("settingsEffect", <<settings>>,
              IF settings # <<>> THEN OptionalCall(flameChart, "setSettings", settings)
              ELSE <<>>)

\* The effect on props.zoom (<<>> for undefined, else <<start, end>>).
zoomEffect(givenZoom) ==
    Requested("zoomEffect", <<givenZoom>>,
              IF givenZoom # <<>> THEN OptionalCall(flameChart, "setZoom", givenZoom)
              ELSE <<>>)

\* The effect on props.hotkeys (<<>> for undefined, else <<boolean>>).
hotkeysEffect(hotkeys) ==
    Requested("hotkeysEffect", <<hotkeys>>,
              IF hotkeys # <<>> /\ hotkeys[1] \in BOOLEAN
              THEN OptionalCall(flameChart, "hotkeys", hotkeys)
              ELSE <<>>)

(***************************************************************************)
(* Construction: setSettings(settings), applyCanvasSize(), reset() on a    *)
(* canvas of the given size.                                               *)
(***************************************************************************)
Constructed(canvasWidth, canvasHeight, givenStyles, givenPatterns) ==
    LET merged == mergeObjects(defaultRenderStyles, givenStyles)
    IN  /\ width = canvasWidth
        /\ height = canvasHeight
        /\ zoom = Num(0)
        /\ positionX = Num(0)
        /\ min = 0
        /\ max = 0
        /\ styles = merged
        /\ blockHeight = merged.blockHeight
        /\ blockPaddingLeftRight = merged.blockPaddingLeftRight
        /\ blockPaddingTopBottom = CeilHalf(merged.blockHeight - FontHeight)
        /\ placeholderWidth = CharWidth(Ellipsis)
        /\ patterns = SettingsPatterns(<<>>, givenPatterns, 1)
        /\ nextGen = 1 + Len(givenPatterns)
        /\ ctx = DefaultCtx(merged.font)
        /\ queue = <<>>
        /\ ctxCachedCalls = EmptyCache(CtxCalls)
        /\ ctxCachedSettings = EmptyCache(CtxFields)
        /\ drawn = <<>>
        /\ written = <<>>
        /\ emitted = <<>>
        /\ lastOp = Op("constructor", <<>>)
        /\ ret = Undefined
        /\ nextId = 1
        /\ paintCalls = [id \in 1..MaxItems |-> 0]

(***************************************************************************)
(* Spec: the render queue, filled and resolved.                            *)
(***************************************************************************)
Priorities == {-MaxNegPriority, -1, 2, MaxPriority}

StripesPattern == [name |-> "stripes", custom |-> FALSE, type |-> "stripes", scale |-> 1,
                   width |-> 10]

QueueRects ==
    {[id |-> 0, color |-> "red", pattern |-> "", x |-> -1, y |-> 0, w |-> MaxCoord, h |-> <<>>],
     [id |-> 0, color |-> "blue", pattern |-> "stripes", x |-> 1, y |-> 0, w |-> MaxCoord,
      h |-> <<1>>]}

QueueTexts ==
    [text : {<<1, 2>>}, x : {0}, y : {0}, w : {2 * 4 + MaxCoord}]

QueueStrokes ==
    [id : {0}, color : {"green"}, x : {0}, y : {0}, w : {MaxCoord}, h : {MaxCoord}]

Init == Constructed(MaxCoord, MaxCoord, <<>>, <<StripesPattern>>) /\ Unmounted

AddRect == nextId <= MaxItems /\ \E r \in QueueRects, p \in Priorities : addRect(r, p)

AddText == nextId <= MaxItems /\ \E t \in QueueTexts, p \in Priorities : addText(t, p)

AddStroke == nextId <= MaxItems /\ \E s \in QueueStrokes, p \in Priorities : addStroke(s, p)

ResolveQueue == resolveQueue

Reset == reset

Next == AddRect \/ AddText \/ AddStroke \/ ResolveQueue \/ Reset

Spec == Init /\ [][Next]_vars

(***************************************************************************)
(* SpecText: labels queued under changing paddings.                        *)
(***************************************************************************)
TextPaddings == {1, 4}

TextItems ==
    [text : {<<>>, <<1, 2>>}, x : {-1, 0}, y : {0},
     w : {2 * p + d : p \in TextPaddings, d \in {0, 1, MaxCoord}}]

InitText == Constructed(MaxCoord, MaxCoord, <<>>, <<>>) /\ Unmounted

AddLabel == nextId <= MaxTexts /\ \E t \in TextItems : addText(t, 0)

SetPadding == \E p \in TextPaddings : setSettings([blockPaddingLeftRight |-> p], <<>>)

NextText == AddLabel \/ SetPadding \/ ResolveQueue \/ Reset

SpecText == InitText /\ [][NextText]_vars

(***************************************************************************)
(* SpecBlock: renderBlock on surfaces of several widths.                   *)
(***************************************************************************)
SurfaceWidths == {0, 1, MaxCoord, 800}

BlockXs == {-50, 801} \cup (-(MaxCoord + 1)..(MaxCoord + 1))

BlockWs == {100} \cup (-2..(2 * MaxCoord + 2))

InitBlock == \E sw \in SurfaceWidths : Constructed(sw, MaxCoord, <<>>, <<>>) /\ Unmounted

RenderBlock == \E x \in BlockXs, w \in BlockWs : renderBlockCall(x, 0, w, <<>>)

ResizeSurface == \E sw \in SurfaceWidths \cup {-1} : resize(<<sw>>, <<>>)

NextBlock == RenderBlock \/ ResizeSurface

SpecBlock == InitBlock /\ [][NextBlock]_vars

(***************************************************************************)
(* SpecView: the viewport under every sequence of its operations.          *)
(***************************************************************************)
ZoomValues == {Norm(a, b) : a, b \in 1..2}

DomainValues == 0..MaxDomain

PositionValues == {Num(-1), Num(1), Num(MaxDomain + 1)}

PositionDeltas == {Num(i) : i \in {-(MaxDomain + 1), -1, 1, MaxDomain + 1}} \cup {Norm(1, 2)}

ViewWidths == {<<>>, <<-1>>, <<2>>, <<MaxDomain>>}

ViewHeights == {<<>>}

InitView == \E w \in {0, 2} : Constructed(w, 1, <<>>, <<>>) /\ Unmounted

SetZoom == \E z \in ZoomValues : setZoom(z)

SetPositionX == \E x \in PositionValues : setPositionX(x)

TryToChangePosition == \E d \in PositionDeltas : tryToChangePosition(d)

SetMinMax == \E a, b \in DomainValues : setMinMax(a, b)

ResetView == resetView

Resize == \E w \in ViewWidths, h \in ViewHeights : resize(w, h)

NextView == SetZoom \/ SetPositionX \/ TryToChangePosition \/ SetMinMax \/ ResetView \/ Resize

SpecView == InitView /\ [][NextView]_vars

(***************************************************************************)
(* SpecSurface: the drawing-state cache under direct writes, clears and    *)
(* resizes of the surface.                                                 *)
(***************************************************************************)
SurfaceColors == {"red", "white"}

CallValues == {JsNumber("0"), JsNumber("5"), JsString(""), JsBoolean("false")}

SizeArgs == {<<>>, NonNumber, <<-1>>, <<0>>, <<MaxCoord>>}

InitSurface == Constructed(MaxCoord, MaxCoord, <<>>, <<>>) /\ Unmounted

SetCtxValue == \E f \in CtxFields, v \in SurfaceColors : setCtxValueCall(f, v)

SetCtxValueTwice == \E f \in CtxFields, v \in SurfaceColors : setCtxValueTwice(f, v)

CallCtx == \E fn \in CtxCalls, v \in CallValues : callCtxCall(fn, v)

CallCtxTwice == \E fn \in CtxCalls, v \in CallValues : callCtxTwice(fn, v)

Clear == clear

ResizeBoth == \E w \in SizeArgs, h \in SizeArgs : resize(w, h)

NextSurface ==
    SetCtxValue \/ SetCtxValueTwice \/ CallCtx \/ CallCtxTwice \/ Clear \/ Reset \/ ResizeBoth

SpecSurface == InitSurface /\ [][NextSurface]_vars

(***************************************************************************)
(* SpecPattern: the pattern registry under every sequence of               *)
(* registrations.                                                          *)
(***************************************************************************)
PatternNames == {"stripes", "waves"}

\* Built-in descriptors, of a known and of an unknown kind.
DefaultDescriptors ==
    [name : PatternNames, custom : {FALSE}, type : {"stripes", "zigzag"}, scale : {1},
     width : {10}]

CustomDescriptors ==
    [name : {"stripes"}, custom : {TRUE}, type : {""}, scale : {2}, width : {4}]

\* The patterns lists given to setSettings: a built-in and a custom
\* descriptor, of one name and of two, in both orders.
SettingsLists ==
    {<<d, c>> : d \in DefaultDescriptors, c \in CustomDescriptors}
        \cup {<<c, d>> : d \in DefaultDescriptors, c \in CustomDescriptors}

InitPattern == Constructed(MaxCoord, MaxCoord, <<>>, <<>>) /\ Unmounted

CreateBlockPattern == nextGen <= MaxGen /\ \E d \in CustomDescriptors : createBlockPatternCall(d)

CreateDefaultPattern ==
    nextGen <= MaxGen /\ \E d \in DefaultDescriptors : createDefaultPatternCall(d)

CreateCachedDefaultPattern ==
    nextGen <= MaxGen /\ \E d \in DefaultDescriptors : createCachedDefaultPatternCall(d)

CreateCachedDefaultPatternTwice ==
    nextGen <= MaxGen /\ \E d \in DefaultDescriptors : createCachedDefaultPatternTwice(d)

SetSettings == nextGen <= MaxGen /\ \E ds \in SettingsLists : setSettings(<<>>, ds)

NextPattern ==
    \/ CreateBlockPattern
    \/ CreateDefaultPattern
    \/ CreateCachedDefaultPattern
    \/ CreateCachedDefaultPatternTwice
    \/ SetSettings

SpecPattern == InitPattern /\ [][NextPattern]_vars

(***************************************************************************)
(* SpecFill: rectangles of registered and of unregistered patterns, queued *)
(* and resolved.  The settings register a custom pattern named "red" and   *)
(* give a built-in descriptor of an unknown kind, "ghost", which is        *)
(* skipped.                                                                *)
(***************************************************************************)
RedPattern == [name |-> "red", custom |-> TRUE, type |-> "", scale |-> 1, width |-> 10]

GhostPattern == [name |-> "ghost", custom |-> FALSE, type |-> "zigzag", scale |-> 1,
                 width |-> 10]

FillRects ==
    [id : {0}, color : {"red", "blue"}, pattern : {"red", "ghost"}, x : {0}, y : {0},
     w : {MaxCoord}, h : {<<>>}]

FillPriorities == {0, 1}

InitFill == Constructed(MaxCoord, MaxCoord, <<>>, <<GhostPattern, RedPattern>>) /\ Unmounted

AddFillRect == nextId <= MaxItems /\ \E r \in FillRects, p \in FillPriorities : addRect(r, p)

NextFill == AddFillRect \/ ResolveQueue

SpecFill == InitFill /\ [][NextFill]_vars


(***************************************************************************)
(* SpecSettings: settings given again and again, between resizes.          *)
(***************************************************************************)
StyleKeys == {"blockHeight", "blockPaddingLeftRight", "fontColor"}

\* The styles objects given: every subset of the keys, with values that are
\* not the defaults.
GivenStyles ==
    {[k \in S |-> IF k = "blockHeight" THEN h
                  ELSE IF k = "blockPaddingLeftRight" THEN 1
                  ELSE "blue"] : S \in SUBSET StyleKeys, h \in {20, 24}}

InitSettings == Constructed(MaxCoord, MaxCoord, <<>>, <<>>) /\ Unmounted

SetStyles == \E given \in GivenStyles : setSettings(given, <<>>)

NextSettings == SetStyles \/ Resize

SpecSettings == InitSettings /\ [][NextSettings]_vars


(***************************************************************************)
(* SpecLabel: one label at a time, of every text and width, queued and     *)
(* painted.                                                                *)
(***************************************************************************)
\* The glyphs of the labels: narrow and wide.
CharClasses == {1, 4}

Labels == UNION {[1..n -> CharClasses] : n \in 1..MaxLen}

\* The widths left for a label.
LabelMaxWidths == 1..(2 * MaxLen)

InitLabel == Constructed(MaxCoord, MaxCoord, <<>>, <<>>) /\ Unmounted

AddLongLabel ==
    /\ queue = <<>>
    /\ nextId <= MaxTexts
    /\ \E text \in Labels, textMaxWidth \in LabelMaxWidths :
        addText([text |-> text, x |-> 0, y |-> 0,
                 w |-> 2 * defaultRenderStyles.blockPaddingLeftRight + textMaxWidth], 0)

NextLabel == AddLongLabel \/ ResolveQueue

SpecLabel == InitLabel /\ [][NextLabel]_vars


(***************************************************************************)
(* SpecTile: rectangles filled with patterns of several scales and tile    *)
(* widths.                                                                 *)
(***************************************************************************)
WidePattern == [name |-> "wide", custom |-> TRUE, type |-> "", scale |-> 1, width |-> 10]

FinePattern == [name |-> "fine", custom |-> TRUE, type |-> "", scale |-> 2, width |-> 10]

TileRects ==
    [id : {0}, color : {"red"}, pattern : {"wide", "fine"}, x : {-5, 0, 3, 100}, y : {0, 2},
     w : {MaxCoord}, h : {<<>>}]

InitTile == Constructed(MaxCoord, MaxCoord, <<>>, <<WidePattern, FinePattern>>) /\ Unmounted

AddTileRect == nextId <= MaxTiles /\ \E r \in TileRects : addRect(r, 0)

NextTile == AddTileRect \/ ResolveQueue

SpecTile == InitTile /\ [][NextTile]_vars


(***************************************************************************)
(* SpecFrame: the render queue under the operations on the surface, the    *)
(* settings and the viewport, between the adds and the resolve of a frame. *)
(***************************************************************************)
FramePriorities == {0, 1}

FrameRects ==
    {[id |-> 0, color |-> "red", pattern |-> "", x |-> 0, y |-> 0, w |-> MaxCoord, h |-> <<>>]}

FrameTexts == [text : {<<1, 2>>}, x : {0}, y : {0}, w : {2 * 4 + MaxCoord}]

InitFrame == Constructed(MaxCoord, MaxCoord, <<>>, <<>>) /\ Unmounted

FrameAddRect == nextId <= MaxTiles /\ \E r \in FrameRects, p \in FramePriorities : addRect(r, p)

FrameAddText == nextId <= MaxTiles /\ \E t \in FrameTexts : addText(t, 0)

FrameAddStroke == nextId <= MaxTiles /\ \E s \in QueueStrokes : addStroke(s, 1)

FrameSetSettings == setSettings([blockHeight |-> 20], <<>>)

FrameResize == resize(<<1>>, <<>>)

FrameSetZoom == setZoom(Norm(1, 2))

FrameSetPositionX == setPositionX(Num(1))

FrameTryToChangePosition == tryToChangePosition(Num(-1))

FrameSetMinMax == setMinMax(0, MaxDomain)

NextFrame ==
    \/ FrameAddRect
    \/ FrameAddText
    \/ FrameAddStroke
    \/ ResolveQueue
    \/ Reset
    \/ Clear
    \/ FrameResize
    \/ FrameSetSettings
    \/ FrameSetZoom
    \/ FrameSetPositionX
    \/ FrameTryToChangePosition
    \/ FrameSetMinMax
    \/ ResetView

SpecFrame == InitFrame /\ [][NextFrame]_vars


(***************************************************************************)
(* SpecComponent: the React component under every order of its ref         *)
(* callbacks, its resize observer and its effects.                         *)
(***************************************************************************)
BoxRefs == {Null, "div1", "div2"}

CanvasRefs == {Null, "canvas1", "canvas2"}

\* The component rendered and nothing attached yet; props.instance given or
\* not.
InitComponent ==
    /\ \E given \in BOOLEAN :
        /\ Constructed(MaxCoord, MaxCoord, <<>>, <<>>)
        /\ boxRef = Null
        /\ canvasRef = Null
        /\ flameChart = NoContainer
        /\ props = [instance |-> given]
        /\ containers = <<>>
        /\ instanceCalls = <<>>
        /\ forwarded = <<>>

SetBoxRef == Len(containers) < MaxContainers /\ \E ref \in BoxRefs : setBoxRef(ref)

SetCanvasRef == Len(containers) < MaxContainers /\ \E ref \in CanvasRefs : setCanvasRef(ref)

OnResize == \E w, h \in {<<>>, <<MaxCoord>>} : onResize(w, h)

SettingsEffect == \E settings \in {<<>>, <<"settings">>} : settingsEffect(settings)

ZoomEffect == \E z \in {<<>>, <<0, MaxDomain>>} : zoomEffect(z)

HotkeysEffect == \E hotkeys \in {<<>>, <<TRUE>>, <<FALSE>>} : hotkeysEffect(hotkeys)

NextComponent ==
    \/ SetBoxRef
    \/ SetCanvasRef
    \/ OnResize
    \/ SettingsEffect
    \/ ZoomEffect
    \/ HotkeysEffect

SpecComponent == InitComponent /\ [][NextComponent]_vars

(***************************************************************************)
(* Claims about the render queue (checked under Spec).                     *)
(***************************************************************************)
Resolved_ == lastOp.name = "resolveQueue"

\* C1: resolveQueue paints all items of a numerically lower priority before
\* any item of a numerically higher priority, for every set of integer
\* priorities (multi-digit and negative ones included).
C1_AscendingNumericPriority ==
    \A i, j \in 1..Len(drawn) : i < j => drawn[i].priority <= drawn[j].priority

\* The rank of a draw call in the order rects, texts, strokes.
ShapeRank(op) == IF op = "fillRect" THEN 1 ELSE IF op = "fillText" THEN 2 ELSE 3

\* C2: within one priority every rectangle fill comes before every text draw
\* and every text draw before every stroke, whatever the order of the adds.
C2_RectsTextsStrokes ==
    \A i, j \in 1..Len(drawn) :
        (i < j /\ drawn[i].priority = drawn[j].priority)
            => ShapeRank(drawn[i].op) <= ShapeRank(drawn[j].op)

\* A resolveQueue painted, in one priority, a stroke added first, a text added
\* second and a rectangle added last.
C2_Witness ==
    /\ Resolved_
    /\ \E i, j, k \in 1..Len(drawn) :
        /\ drawn[i].op = "fillRect" /\ drawn[j].op = "fillText" /\ drawn[k].op = "strokeRect"
        /\ drawn[i].priority = drawn[j].priority /\ drawn[j].priority = drawn[k].priority
        /\ drawn[k].id < drawn[j].id /\ drawn[j].id < drawn[i].id

\* C3: of two rectangles added with the same priority, pattern and color, the
\* one added first (the smaller id) is filled first.
C3_BucketFifo ==
    \A i, j \in 1..Len(drawn) :
        (/\ drawn[i].op = "fillRect" /\ drawn[j].op = "fillRect"
         /\ drawn[i].priority = drawn[j].priority
         /\ drawn[i].src.pattern = drawn[j].src.pattern
         /\ drawn[i].src.color = drawn[j].src.color
         /\ drawn[i].id < drawn[j].id)
            => i < j

\* A resolveQueue filled two rectangles of one bucket that were added with
\* another item between them.
C3_Witness ==
    /\ Resolved_
    /\ \E i, j \in 1..Len(drawn) :
        /\ drawn[i].op = "fillRect" /\ drawn[j].op = "fillRect"
        /\ drawn[i].priority = drawn[j].priority
        /\ drawn[i].src.pattern = drawn[j].src.pattern
        /\ drawn[i].src.color = drawn[j].src.color
        /\ drawn[j].id = drawn[i].id + 2

\* C4: immediately after every resolveQueue call the queue holds no priority
\* bucket (and so no rect, text or stroke item).
C4_QueueEmptyAfterResolve == Resolved_ => queue = <<>>

\* A resolveQueue that painted items of two priorities.
C4_Witness ==
    /\ Resolved_
    /\ \E i, j \in 1..Len(drawn) : drawn[i].priority # drawn[j].priority

\* C5: a resolveQueue call on a queue to which nothing was added since the
\* last resolveQueue, reset or construction makes no draw call, and no item
\* is painted by two resolveQueue calls.
C5_ResolveOnce ==
    /\ [](\A id \in DOMAIN paintCalls : paintCalls[id] <= 1)
    /\ [][(lastOp'.name = "resolveQueue" /\ queue = <<>>) => drawn' = <<>>]_vars
    /\ [][(lastOp.name \in {"constructor", "reset", "resolveQueue"}
           /\ lastOp'.name = "resolveQueue") => drawn' = <<>>]_vars

\* A resolveQueue that made no draw call after an earlier one painted an item.
C5_Witness ==
    /\ Resolved_
    /\ drawn = <<>>
    /\ \E id \in DOMAIN paintCalls : paintCalls[id] = 1

(***************************************************************************)
(* Claims about queued labels (checked under SpecText).                    *)
(***************************************************************************)
StoredTexts ==
    UNION {{queue[i].text[j] : j \in 1..Len(queue[i].text)} : i \in 1..Len(queue)}

\* C6 as stated: in every reachable state every stored text item has
\* textMaxWidth = w - 2*blockPaddingLeftRight - max(0, -x) and textMaxWidth > 0.
C6_StoredWidthMatchesPadding ==
    \A t \in StoredTexts :
        /\ t.textMaxWidth = t.w - 2 * blockPaddingLeftRight - Max2(0, -t.x)
        /\ t.textMaxWidth > 0

\* C6 as amended: every stored text item has textMaxWidth > 0; an addText call
\* that computes w - 2*p - max(0, -x) > 0 for a non-empty text, p being
\* blockPaddingLeftRight at the call, stores exactly that as the item's
\* textMaxWidth, and a call that computes a value <= 0 adds nothing.
C6_TextWidthAtAdd ==
    /\ [](\A t \in StoredTexts : t.textMaxWidth > 0)
    /\ [][lastOp'.name = "addText" =>
            LET item == lastOp'.args[1]
                computed == item.w - 2 * blockPaddingLeftRight - Max2(0, -item.x)
                bucket == queue'[KeyIndex(queue', NumberToString(lastOp'.args[2]))]
            IN  IF computed > 0 /\ item.text # <<>>
                THEN /\ StoredTexts' \ StoredTexts = {bucket.text[Len(bucket.text)]}
                     /\ bucket.text[Len(bucket.text)].textMaxWidth = computed
                     /\ bucket.text[Len(bucket.text)].w = item.w
                     /\ bucket.text[Len(bucket.text)].x = item.x
                ELSE queue' = queue]_vars

\* An addText call of a non-empty label was dropped for its width, with a
\* label clipped at the left edge already stored.
C6_Witness ==
    /\ lastOp.name = "addText"
    /\ lastOp.args[1].text # <<>>
    /\ lastOp.args[1].w - 2 * blockPaddingLeftRight - Max2(0, -lastOp.args[1].x) <= 0
    /\ \E t \in StoredTexts : t.x < 0 /\ t.textMaxWidth = t.w - 2 * blockPaddingLeftRight + t.x

(***************************************************************************)
(* Claims about renderBlock (checked under SpecBlock).                     *)
(***************************************************************************)
Clamp(v, lo, hi) == IF v < lo THEN lo ELSE IF v > hi THEN hi ELSE v

\* C7: renderBlock calls fillRect with x' = clamp(x, 0, W) and
\* width = clamp(w - (x' - x), 0, W - x'): the width is never negative and
\* [x', x' + width] lies inside [0, W].
C7_BlockClamped ==
    \A i \in 1..Len(drawn) :
        drawn[i].op = "fillRect" =>
            LET c == drawn[i]
            IN  /\ c.x = Clamp(c.src.x, 0, c.sw)
                /\ c.w = Clamp(c.src.w - (c.x - c.src.x), 0, c.sw - c.x)
                /\ c.w >= 0
                /\ 0 <= c.x
                /\ c.x + c.w <= c.sw

\* renderBlock(-50, y, 100) on a surface 800 wide was drawn at x = 0, 50 wide.
C7_Witness ==
    /\ lastOp.name = "renderBlock"
    /\ \E i \in 1..Len(drawn) :
        /\ drawn[i].src.x = -50 /\ drawn[i].src.w = 100 /\ drawn[i].sw = 800
        /\ drawn[i].x = 0 /\ drawn[i].w = 50

(***************************************************************************)
(* Claims about the viewport (checked under SpecView).                     *)
(***************************************************************************)
RealView == NDiv(Num(width), zoom)

DomainHoldsView == NGe(Num(max - min), RealView)

InDomain(x) == NLe(Num(min), x) /\ NLe(x, NSub(Num(max), RealView))

\* C8: when max - min >= realView and zoom > 0, tryToChangePosition(delta)
\* leaves positionX + delta when that lies in [min, max - realView] and the
\* nearest edge otherwise: the result is in the interval and no move is
\* rejected.
C8_TryClamps ==
    [][(lastOp'.name = "tryToChangePosition" /\ NGt(zoom, Num(0)) /\ DomainHoldsView) =>
        LET target == NAdd(positionX, lastOp'.args[1])
            lo == Num(min)
            hi == NSub(Num(max), RealView)
        IN  /\ InDomain(positionX')
            /\ positionX' = IF NLt(target, lo) THEN lo
                            ELSE IF NGt(target, hi) THEN hi
                            ELSE target]_vars

\* A tryToChangePosition left positionX at the right edge max - realView of a
\* domain wider than the view.
C8_Witness ==
    /\ lastOp.name = "tryToChangePosition"
    /\ NGt(zoom, Num(0))
    /\ NGt(Num(max - min), RealView)
    /\ positionX = NSub(Num(max), RealView)
    /\ NGt(lastOp.args[1], Num(1))

\* C9 as stated: in every reachable state positionX lies in
\* [min, max - width/zoom] whenever max - min >= width/zoom.
C9_PositionInDomain == DomainHoldsView => InDomain(positionX)

\* C9 as amended: the same in every state that tryToChangePosition or
\* resetView leaves.
C9_PositionInDomainAfterClamp ==
    (lastOp.name \in {"tryToChangePosition", "resetView"} /\ DomainHoldsView)
        => InDomain(positionX)

\* A tryToChangePosition moved positionX strictly inside the interval.
C9_Witness ==
    /\ lastOp.name = "tryToChangePosition"
    /\ DomainHoldsView
    /\ NLt(Num(min), positionX)
    /\ NLt(positionX, NSub(Num(max), RealView))

\* C10: zoom > 0 in every reachable state, from construction on.
C10_ZoomPositive == NGt(zoom, Num(0))

\* C11: for every domain with max > min, getRealView() in the state resetView()
\* leaves is max - min, and positionX is min.
C11_ResetViewFitsDomain ==
    (lastOp.name = "resetView" /\ max > min)
        => (getRealView = Num(max - min) /\ positionX = Num(min))

\* C17: setMinMax(min, max) always stores the bounds given; it emits
\* 'min-max-change' once, with them, when min or max differs from the stored
\* value, and nothing when both equal the stored values.
C17_MinMaxChangeNotified ==
    [][lastOp'.name = "setMinMax" =>
        /\ min' = lastOp'.args[1]
        /\ max' = lastOp'.args[2]
        /\ emitted' = IF lastOp'.args[1] # min \/ lastOp'.args[2] # max
                      THEN <<[name |-> "min-max-change", args |-> lastOp'.args]>>
                      ELSE <<>>]_vars

\* A setMinMax call with the bounds already stored emitted nothing.
C17_Witness ==
    /\ lastOp.name = "setMinMax"
    /\ lastOp.args = <<min, max>>
    /\ max > min
    /\ emitted = <<>>

(***************************************************************************)
(* Claims about the drawing-state cache and the surface's size (checked    *)
(* under SpecSurface).                                                     *)
(***************************************************************************)
\* A setCtxValue step writes the surface once when the cache does not hold the
\* value for the field, and not at all when it does.
WritesOnCacheMiss ==
    lastOp'.name = "setCtxValue" =>
        LET field == lastOp'.args[1]
            value == lastOp'.args[2]
        IN  /\ written' = IF ctxCachedSettings[field] # <<value>>
                          THEN <<Write(field, value)>>
                          ELSE <<>>
            /\ written' # <<>> => ctx'[field] = Color(value)

\* A setCtxValue step that repeats the call before it writes nothing.
RepeatIsSilent ==
    (/\ lastOp.name \in {"setCtxValue", "setCtxValueTwice"}
     /\ lastOp'.name = "setCtxValue"
     /\ lastOp'.args = lastOp.args)
        => written' = <<>>

\* C12 as stated: setCtxValue(field, value) writes the surface exactly when the
\* cached value of the field differs from value or is absent, and two
\* consecutive calls with the same field and value make exactly one write.
C12_PairWritesOnce ==
    /\ [][WritesOnCacheMiss]_vars
    /\ [](lastOp.name = "setCtxValueTwice" => Len(written) = 1)

\* C12 as amended: setCtxValue writes exactly when the cached value differs or
\* is absent; of two consecutive calls with the same field and value the
\* second writes nothing, and the two make one write when the cache did not
\* hold the value before the first call and none when it did.
C12_SecondCallSilent ==
    /\ [][WritesOnCacheMiss]_vars
    /\ [][RepeatIsSilent]_vars
    /\ [][lastOp'.name = "setCtxValueTwice" =>
            LET field == lastOp'.args[1]
                value == lastOp'.args[2]
            IN  written' = IF ctxCachedSettings[field] # <<value>>
                           THEN <<Write(field, value)>>
                           ELSE <<>>]_vars

\* Two consecutive setCtxValue calls made one write, which left the value on
\* the surface and in the cache.
C12_Witness ==
    /\ lastOp.name = "setCtxValueTwice"
    /\ written = <<Write(lastOp.args[1], lastOp.args[2])>>
    /\ ctxCachedSettings[lastOp.args[1]] = <<lastOp.args[2]>>
    /\ ctx[lastOp.args[1]] = Color(lastOp.args[2])

\* C13: callCtx(fn, value) invokes fn only if the cached last argument of fn
\* differs from value, and of two consecutive callCtx calls with the same fn
\* and value (0, the empty string and false included) the second does not
\* invoke fn again.
C13_CallOnlyOnChange ==
    /\ [][(lastOp'.name = "callCtx" /\ written' # <<>>)
            => ctxCachedCalls[lastOp'.args[1]] # <<lastOp'.args[2]>>]_vars
    /\ [](lastOp.name = "callCtxTwice" => Len(written) <= 1)

\* C14: ctxCachedSettings and ctxCachedCalls are empty right after
\* construction, after every clear() and after every resize() that changes a
\* dimension (such a resize is the one that emits 'resize').
C14_CachesEmptyAfterClearResize ==
    (\/ lastOp.name \in {"constructor", "clear"}
     \/ lastOp.name = "resize" /\ emitted # <<>>)
        => (/\ ctxCachedSettings = EmptyCache(CtxFields)
            /\ ctxCachedCalls = EmptyCache(CtxCalls))

\* C15: resize(width, height) emits one 'resize' carrying the new width and
\* height when a stored dimension changes and nothing when none does, and
\* returns true exactly when the stored height changed.
C15_ResizeNotifies ==
    [][lastOp'.name = "resize" =>
        /\ emitted' = IF width' # width \/ height' # height
                      THEN <<[name |-> "resize", args |-> <<width', height'>>]>>
                      ELSE <<>>
        /\ ret' = <<height' # height>>]_vars

\* A resize changed the width alone: it emitted 'resize' and returned false.
C15_Witness ==
    /\ lastOp.name = "resize"
    /\ IsNumber(lastOp.args[1])
    /\ IsNumber(lastOp.args[2])
    /\ emitted = <<[name |-> "resize", args |-> <<width, height>>]>>
    /\ ret = <<FALSE>>

\* C16: resize leaves the stored dimension of an axis whose argument is
\* omitted or not a number as it was and stores 0 for a negative number, so
\* width >= 0 and height >= 0 after every sequence of resize calls.
C16_ResizeClamps ==
    /\ [](width >= 0 /\ height >= 0)
    /\ [][lastOp'.name = "resize" =>
            LET w == lastOp'.args[1]
                h == lastOp'.args[2]
            IN  /\ ~IsNumber(w) => width' = width
                /\ ~IsNumber(h) => height' = height
                /\ (IsNumber(w) /\ w[1] < 0) => width' = 0
                /\ (IsNumber(h) /\ h[1] < 0) => height' = 0]_vars

\* resize(-1, <not a number>) took the width from MaxCoord to 0 and left the
\* height alone.
C16_Witness ==
    /\ lastOp = Op("resize", <<(<<-1>>), NonNumber>>)
    /\ emitted # <<>>
    /\ width = 0
    /\ height = MaxCoord

(***************************************************************************)
(* Claims about the pattern registry (checked under SpecPattern).          *)
(***************************************************************************)
\* A createCachedDefaultPattern step leaves a registry that holds the name as
\* it is and creates nothing.
CachedCallKeeps ==
    (lastOp'.name = "createCachedDefaultPattern" /\ lastOp'.args[1].name \in DOMAIN patterns)
        => (patterns' = patterns /\ nextGen' = nextGen)

\* C18 as stated: two createCachedDefaultPattern calls with the same pattern
\* name create exactly one pattern; the second call creates nothing and the
\* resource stored under the name is the one the first call created.
C18_TwiceCreatesOne ==
    /\ [][CachedCallKeeps]_vars
    /\ [][lastOp'.name = "createCachedDefaultPatternTwice" =>
            LET name == lastOp'.args[1].name
            IN  /\ nextGen' = nextGen + 1
                /\ name \in DOMAIN patterns'
                /\ patterns'[name].gen = nextGen]_vars

\* C18 as amended: for a descriptor of a known kind whose name is not in the
\* registry the two calls create exactly one pattern, the one of the first
\* call; when the name is registered already, or the kind is unknown, they
\* create none and leave the registry as it was.  The second call never
\* creates a pattern under a name the registry holds.
C18_TwiceCreatesAtMostOne ==
    /\ [][CachedCallKeeps]_vars
    /\ [][lastOp'.name = "createCachedDefaultPatternTwice" =>
            LET d == lastOp'.args[1]
            IN  IF d.name \notin DOMAIN patterns /\ d.type \in DefaultPatternTypes
                THEN /\ nextGen' = nextGen + 1
                     /\ DOMAIN patterns' = DOMAIN patterns \cup {d.name}
                     /\ patterns'[d.name].gen = nextGen
                     /\ \A n \in DOMAIN patterns : patterns'[n] = patterns[n]
                ELSE /\ nextGen' = nextGen
                     /\ patterns' = patterns]_vars

\* Two createCachedDefaultPattern calls stored one new pattern, the newest
\* resource, beside an older one of another name.
C18_Witness ==
    /\ lastOp.name = "createCachedDefaultPatternTwice"
    /\ lastOp.args[1].name \in DOMAIN patterns
    /\ patterns[lastOp.args[1].name].gen = nextGen - 1
    /\ \E n \in DOMAIN patterns : patterns[n].gen < nextGen - 1

\* C19 as stated: a pattern stored under a name is never recreated or
\* replaced by a later registration of the name, through setSettings,
\* createDefaultPattern, createBlockPattern or createCachedDefaultPattern.
C19_StoredPatternKept ==
    [][\A n \in DOMAIN patterns : n \in DOMAIN patterns' /\ patterns'[n] = patterns[n]]_vars

\* C19 as amended: createCachedDefaultPattern never recreates or replaces a
\* stored pattern; createBlockPattern, createDefaultPattern with a known kind
\* and setSettings store a newly created pattern under the name whatever the
\* registry held.  No registration removes a name or touches the pattern of
\* a name it was not given.
C19_OnlyCachedPathKeeps ==
    /\ [][CachedCallKeeps]_vars
    /\ [][DOMAIN patterns \subseteq DOMAIN patterns']_vars
    /\ [][lastOp'.name \in {"createBlockPattern", "createDefaultPattern",
                            "createCachedDefaultPattern"} =>
            LET d == lastOp'.args[1]
            IN  /\ \A n \in DOMAIN patterns \ {d.name} : patterns'[n] = patterns[n]
                /\ (\/ lastOp'.name = "createBlockPattern"
                    \/ lastOp'.name = "createDefaultPattern" /\ d.type \in DefaultPatternTypes)
                        => (/\ d.name \in DOMAIN patterns'
                            /\ patterns'[d.name].gen = nextGen)]_vars
    /\ [][lastOp'.name = "setSettings" =>
            \A i \in 1..Len(lastOp'.args[2]) :
                LET d == lastOp'.args[2][i]
                IN  (d.custom \/ d.type \in DefaultPatternTypes)
                        => (/\ d.name \in DOMAIN patterns'
                            /\ patterns'[d.name].gen >= nextGen)]_vars

\* A createCachedDefaultPattern call left in place the pattern a custom
\* descriptor had stored under its name, other patterns having been created
\* since.
C19_Witness ==
    /\ lastOp.name = "createCachedDefaultPattern"
    /\ lastOp.args[1].name \in DOMAIN patterns
    /\ patterns[lastOp.args[1].name].width # lastOp.args[1].width
    /\ patterns[lastOp.args[1].name].gen < nextGen - 1

(***************************************************************************)
(* Claims about pattern fills (checked under SpecFill).                    *)
(***************************************************************************)
\* C20: a rectangle queued with a pattern name that the registry does not
\* hold is filled with its own color: at its fillRect the surface's fill
\* style is rect.color, whatever was queued, painted and resolved before.
C20_UnregisteredPatternFillsSolid ==
    \A i \in 1..Len(drawn) :
        (/\ drawn[i].op = "fillRect"
         /\ drawn[i].src.pattern # "none"
         /\ drawn[i].src.pattern \notin DOMAIN patterns)
            => drawn[i].fill = Color(drawn[i].src.color)

(***************************************************************************)
(* Claims about the settings (checked under SpecSettings).                 *)
(***************************************************************************)
\* C21: setSettings merges the styles given over the engine's current styles:
\* a key that the call omits keeps the value it had before the call.
C21_OmittedStyleKept ==
    [][lastOp'.name = "setSettings" =>
        \A k \in DOMAIN styles :
            k \notin DOMAIN lastOp'.args[1] => styles'[k] = styles[k]]_vars

(***************************************************************************)
(* Claims about the text fitter (checked under SpecLabel).                 *)
(***************************************************************************)
\* The fillText calls of the last operation that paint a shortened label.
Truncated ==
    {i \in 1..Len(drawn) :
        /\ drawn[i].op = "fillText"
        /\ MeasureText(drawn[i].src.text) > drawn[i].src.textMaxWidth}

\* C22: the string drawn for a label whose measured width exceeds
\* textMaxWidth is at most textMaxWidth wide, the width of a string being the
\* sum of the widths of its characters.
C22_TruncatedFits ==
    \A i \in Truncated : MeasureText(drawn[i].text) <= drawn[i].src.textMaxWidth

\* The text items of the queue.
QueuedTexts ==
    UNION {{queue[i].text[j] : j \in 1..Len(queue[i].text)} : i \in 1..Len(queue)}

\* floor((textMaxWidth - ellipsisWidth) / avgCharWidth), avgCharWidth being
\* the label's width divided by its length.
MaxChars(t) ==
    ((t.textMaxWidth - CharWidth(Ellipsis)) * Len(t.text)) \div MeasureText(t.text)

\* C23: resolveQueue draws for an overflowing label with half = (maxChars-1)/2
\* > 0 its first ceil(half) characters, one ellipsis and its last floor(half)
\* characters (maxChars - 1 of its characters, fewer than it has), and draws
\* nothing for it when half <= 0.
C23_LeadEllipsisTrail ==
    [][lastOp'.name = "resolveQueue" =>
        \A t \in QueuedTexts :
            LET calls == {i \in 1..Len(drawn') : drawn'[i].id = t.id}
                n == Len(t.text)
                lead == MaxChars(t) \div 2
                trail == (MaxChars(t) - 1) \div 2
            IN  MeasureText(t.text) > t.textMaxWidth =>
                    IF MaxChars(t) - 1 > 0
                    THEN /\ lead + trail = MaxChars(t) - 1
                         /\ lead + trail < n
                         /\ lead \in {trail, trail + 1}
                         /\ \E i \in calls :
                                /\ calls = {i}
                                /\ drawn'[i].op = "fillText"
                                /\ drawn'[i].text =
                                       SubSeq(t.text, 1, lead) \o <<Ellipsis>>
                                       \o SubSeq(t.text, n - trail + 1, n)
                    ELSE calls = {}]_vars

\* A label of MaxLen characters was drawn as its first character, the
\* ellipsis and its last character, a different one.
C23_Witness ==
    /\ lastOp.name = "resolveQueue"
    /\ \E i \in Truncated :
        /\ Len(drawn[i].src.text) = MaxLen
        /\ drawn[i].text = <<drawn[i].src.text[1], Ellipsis, drawn[i].src.text[MaxLen]>>
        /\ drawn[i].text[1] # drawn[i].text[3]

(***************************************************************************)
(* Claims about the anchoring of pattern tiles (checked under SpecTile).   *)
(***************************************************************************)
\* The fillRect calls of the last operation made with a pattern as fill style.
PatternFills ==
    {i \in 1..Len(drawn) : drawn[i].op = "fillRect" /\ drawn[i].fill.kind = "pattern"}

\* The pattern a call of PatternFills fills with.
TileOf(i) == patterns[drawn[i].fill.v]

\* C24: two rectangles filled with one pattern of tile width W and scale S at
\* the same y and at x and x + k*W/S, k an integer, get the same horizontal
\* translation of the tile; with S = 1 and W = 10, x = 0 and x = 100 get 0.
C24_SamePhase ==
    \A i, j \in PatternFills :
        /\ (/\ drawn[i].fill = drawn[j].fill
            /\ drawn[i].src.y = drawn[j].src.y
            /\ ((drawn[j].src.x - drawn[i].src.x) * TileOf(i).scale) % TileOf(i).width = 0)
                => (drawn[i].tx = drawn[j].tx /\ drawn[i].ty = drawn[j].ty)
        /\ (TileOf(i).scale = 1 /\ TileOf(i).width = 10 /\ drawn[i].src.x \in {0, 100})
                => drawn[i].tx = 0

\* One resolveQueue filled rectangles at x = -5 and x = 100 with the pattern
\* of scale 2 and tile width 10.
C24_Witness ==
    /\ lastOp.name = "resolveQueue"
    /\ \E i, j \in PatternFills :
        /\ drawn[i].fill = drawn[j].fill
        /\ TileOf(i).scale = 2
        /\ drawn[i].src.y = drawn[j].src.y
        /\ drawn[i].src.x = -5
        /\ drawn[j].src.x = 100

\* C25 as stated: before each pattern fill the tile is translated by
\* (x*scale) mod (width*scale) horizontally and by y*scale vertically.
C25_TranslationModScaledWidth ==
    \A i \in PatternFills :
        /\ drawn[i].tx = (drawn[i].src.x * TileOf(i).scale) % (TileOf(i).width * TileOf(i).scale)
        /\ drawn[i].ty = drawn[i].src.y * TileOf(i).scale

\* C25 as amended: the tile is translated by (x*scale) mod width, a value in
\* [0, width) for negative x too, horizontally and by y*scale vertically.
C25_TranslationModWidth ==
    \A i \in PatternFills :
        /\ drawn[i].tx = (drawn[i].src.x * TileOf(i).scale) % TileOf(i).width
        /\ 0 <= drawn[i].tx
        /\ drawn[i].tx < TileOf(i).width
        /\ drawn[i].ty = drawn[i].src.y * TileOf(i).scale

\* A rectangle at x = 3, y = 2 was filled with the pattern of scale 2, and one
\* at a negative x with it too.
C25_Witness ==
    /\ lastOp.name = "resolveQueue"
    /\ \E i, j \in PatternFills :
        /\ TileOf(i).scale = 2
        /\ drawn[i].src.x = 3
        /\ drawn[i].src.y = 2
        /\ drawn[i].tx = 6
        /\ drawn[i].ty = 4
        /\ drawn[j].fill = drawn[i].fill
        /\ drawn[j].src.x < 0

(***************************************************************************)
(* Claims about the coherence of the settings cache (checked under         *)
(* SpecFill).                                                              *)
(***************************************************************************)
\* The surface holds, for every field the cache has a value for, that value.
Coherent(surface, cache) ==
    \A field \in CtxFields :
        cache[field] # <<>> => surface[field] = Color(cache[field][1])

\* The surfaces that resolveQueue passes through, one per priority: each as
\* renderRects left it, before renderTexts.
RECURSIVE AfterRenderRects(_, _, _)
AfterRenderRects(st, q, priorities) ==
    IF priorities = <<>> THEN <<>>
    ELSE LET p == Head(priorities)
             bucket == q[KeyIndex(q, NumberToString(p))]
         IN  <<renderRects(st, bucket.rect, p)>>
                \o AfterRenderRects(RenderBucket(st, bucket, p), q, Tail(priorities))

\* C26: whenever ctxCachedSettings holds a value for a field, the surface
\* holds that value for the field; for fillStyle the surface holds the solid
\* color the cache names, never a pattern, so a setCtxValue that hits the
\* cache leaves on the surface the fill it was asked for.
C26_CacheCoherent ==
    /\ [](Coherent(ctx, ctxCachedSettings))
    /\ [][lastOp'.name = "resolveQueue" =>
            LET mids == AfterRenderRects(Surface, queue, ResolveOrder(queue))
            IN  \A i \in 1..Len(mids) : Coherent(mids[i].ctx, mids[i].cache)]_vars

(***************************************************************************)
(* Claims about the patterns of setSettings (checked under SpecPattern).   *)
(***************************************************************************)
\* The registry holds under d.name a pattern made from the descriptor d after
\* the registry's generation gen.
StoredFrom(reg, d, gen) ==
    /\ d.name \in DOMAIN reg
    /\ reg[d.name].scale = d.scale
    /\ reg[d.name].width = d.width
    /\ reg[d.name].gen >= gen

\* A descriptor that a registration recognises: a custom one, or a built-in
\* one of a known kind.
Recognised(d) == IsCustom(d) \/ d.type \in DefaultPatternTypes

\* C27: after a setSettings whose patterns list holds a built-in and a custom
\* descriptor of one name, the registry holds the custom one under that name,
\* in whichever order the list gave them; and every recognised descriptor
\* whose name no other descriptor of the list has is registered.
C27_CustomWins ==
    [][lastOp'.name = "setSettings" =>
        LET ds == lastOp'.args[2]
        IN  \A i \in 1..Len(ds) :
                /\ (IsCustom(ds[i]) /\ \E j \in 1..Len(ds) :
                        IsDefault(ds[j]) /\ ds[j].name = ds[i].name)
                    => StoredFrom(patterns', ds[i], nextGen)
                /\ (Recognised(ds[i]) /\ \A j \in 1..Len(ds) :
                        j # i => ds[j].name # ds[i].name)
                    => StoredFrom(patterns', ds[i], nextGen)]_vars

\* A setSettings was given the custom descriptor first and a built-in one of
\* a known kind and of the same name after it, and the registry holds the
\* custom one.
C27_Witness ==
    /\ lastOp.name = "setSettings"
    /\ Len(lastOp.args[2]) = 2
    /\ IsCustom(lastOp.args[2][1])
    /\ IsDefault(lastOp.args[2][2])
    /\ lastOp.args[2][2].type \in DefaultPatternTypes
    /\ lastOp.args[2][2].name = lastOp.args[2][1].name
    /\ StoredFrom(patterns, lastOp.args[2][1], 0)

(***************************************************************************)
(* Claims about what leaves the render queue alone (checked under          *)
(* SpecFrame).                                                             *)
(***************************************************************************)
QueueKeepers ==
    {"clear", "resize", "setSettings", "setZoom", "setPositionX", "tryToChangePosition",
     "setMinMax", "resetView"}

QueueAdders == {"addRect", "addText", "addStroke"}

\* The bucket of the queue q under key, <<>> when q has none.
BucketOf(q, key) == IF KeyIndex(q, key) = 0 THEN <<>> ELSE <<q[KeyIndex(q, key)]>>

\* C28: clear, resize, setSettings and the viewport operations leave the
\* render queue as it was; resolveQueue and reset empty it and nothing else
\* does; an add for the priority p leaves the bucket of every other priority
\* as it was.
C28_QueueFrame ==
    [][/\ lastOp'.name \in QueueKeepers => queue' = queue
       /\ lastOp'.name \in {"resolveQueue", "reset"} => queue' = <<>>
       /\ (queue # <<>> /\ queue' = <<>>) => lastOp'.name \in {"resolveQueue", "reset"}
       /\ lastOp'.name \in QueueAdders =>
            \A p \in FramePriorities :
                p # lastOp'.args[2]
                    => BucketOf(queue', NumberToString(p)) = BucketOf(queue, NumberToString(p))
      ]_vars

\* A resize that changed the width left a queue of two buckets in place, the
\* last item of which was added to one bucket while the other held an item.
C28_Witness ==
    /\ lastOp.name = "resize"
    /\ emitted # <<>>
    /\ Len(queue) = 2
    /\ \A i \in 1..2 : queue[i].rect # <<>> \/ queue[i].text # <<>> \/ queue[i].stroke # <<>>

(***************************************************************************)
(* Claims about the React component (checked under SpecComponent).         *)
(***************************************************************************)
Requests == {"onResize", "settingsEffect", "zoomEffect", "hotkeysEffect"}

\* C29: under every interleaving of the setBoxRef and setCanvasRef callbacks,
\* null refs included, a container is constructed only when both refs are
\* non-null (one at a time, on the canvas the ref holds); props.instance is
\* called exactly once for every container constructed; and a resize,
\* setSettings, setZoom or hotkeys request that arrives while no container
\* exists calls nothing and changes nothing.
C29_ContainerLifecycle ==
    /\ [][containers' # containers =>
            /\ lastOp'.name \in {"setBoxRef", "setCanvasRef"}
            /\ boxRef' # Null
            /\ canvasRef' # Null
            /\ containers' = Append(containers, [canvas |-> canvasRef', box |-> boxRef'])
            /\ flameChart' = Len(containers')]_vars
    /\ [](props.instance => instanceCalls = [i \in 1..Len(containers) |-> i])
    /\ [](flameChart = NoContainer <=> containers = <<>>)
    /\ [][(lastOp'.name \in Requests /\ containers = <<>>) =>
            /\ forwarded' = <<>>
            /\ UNCHANGED <<boxRef, canvasRef, flameChart, containers, instanceCalls>>]_vars
    /\ []((lastOp.name \in Requests /\ forwarded # <<>>) =>
            (Len(forwarded) = 1 /\ forwarded[1].target = flameChart))

\* Two containers were constructed and handed to props.instance, and a null
\* canvas ref arrived after the second.
C29_Witness ==
    /\ props.instance
    /\ Len(containers) = 2
    /\ instanceCalls = <<1, 2>>
    /\ canvasRef = Null
    /\ boxRef # Null
    /\ lastOp.name = "setCanvasRef"

====
